---- MODULE Spec2Model ----
(***************************************************************************)
(* Model of Project1/password_strength_wordlist_tool.py: the wordlist      *)
(* generator (leetspeak_variants, word_variants, generate_wordlist).       *)
(*                                                                         *)
(* A Python str is a sequence of one-character strings, so that            *)
(* concatenation, case mapping, splitting and ordering are computed and    *)
(* not assumed.  An optional value (None or a value) is a record           *)
(* [some, val].  One run of the program performs one call: pc goes from    *)
(* "ready" to "done".                                                      *)
(***************************************************************************)
EXTENDS Integers, Sequences, FiniteSets, TLC

VARIABLES pc, args, variants, results, ret, wl, capped, file, stdout

vars == <<pc, args, variants, results, ret, wl, capped, file, stdout>>

----------------------------------------------------------------------------
(* Bounds of the explored inputs. *)

\* longest word given to leetspeak_variants
MaxWordLen == 3
\* longest base_words list given to word_variants directly
MaxBase == 2
\* longest --years text
MaxYearsLen == 3
\* largest year of a years list given to word_variants directly
MaxYear == 2
\* longest separator list given to word_variants directly
MaxSeps == 2
\* largest small --max-size value
MaxCap == 2

----------------------------------------------------------------------------
(* Optional values. *)

None == [some |-> FALSE, val |-> <<>>]

Some(v) == [some |-> TRUE, val |-> v]

\* Python truthiness of an optional str or list: None and the empty value are false
Truthy(o) == o.some /\ o.val # <<>>

----------------------------------------------------------------------------
(* Characters: code points, case mapping. *)

\* ord(c) of every character the model uses
Ord == ( "!" :> 33 @@ "$" :> 36 @@ "-" :> 45 @@ "." :> 46 @@ "0" :> 48
      @@ "1" :> 49 @@ "2" :> 50 @@ "3" :> 51 @@ "4" :> 52 @@ "5" :> 53
      @@ "6" :> 54 @@ "7" :> 55 @@ "8" :> 56 @@ "9" :> 57 @@ "@" :> 64 @@ "A" :> 65 @@ "B" :> 66 @@ "E" :> 69
      @@ "I" :> 73 @@ "M" :> 77 @@ "O" :> 79 @@ "S" :> 83 @@ "T" :> 84
      @@ "X" :> 88 @@ "_" :> 95 @@ "a" :> 97 @@ "b" :> 98 @@ "e" :> 101
      @@ "i" :> 105 @@ "m" :> 109 @@ "o" :> 111 @@ "s" :> 115 @@ "t" :> 116
      @@ "x" :> 120 )

\* str.lower() of one upper-case character
LowerOf == ( "A" :> "a" @@ "B" :> "b" @@ "E" :> "e" @@ "I" :> "i"
          @@ "M" :> "m" @@ "O" :> "o" @@ "S" :> "s" @@ "T" :> "t"
          @@ "X" :> "x" )

\* str.upper() of one lower-case character
UpperOf == ( "a" :> "A" @@ "b" :> "B" @@ "e" :> "E" @@ "i" :> "I"
          @@ "m" :> "M" @@ "o" :> "O" @@ "s" :> "S" @@ "t" :> "T"
          @@ "x" :> "X" )

LowerChar(c) == IF c \in DOMAIN LowerOf THEN LowerOf[c] ELSE c

UpperChar(c) == IF c \in DOMAIN UpperOf THEN UpperOf[c] ELSE c

IsCased(c) == c \in DOMAIN LowerOf \/ c \in DOMAIN UpperOf

\* str.lower()
Lower(w) == [i \in 1..Len(w) |-> LowerChar(w[i])]

\* str.upper()
Upper(w) == [i \in 1..Len(w) |-> UpperChar(w[i])]

\* str.title(): a cased character is upper-cased when the character before it
\* is not cased (or there is none), lower-cased otherwise
Title(w) ==
    [i \in 1..Len(w) |->
        IF i > 1 /\ IsCased(w[i-1]) THEN LowerChar(w[i]) ELSE UpperChar(w[i])]

\* s < t for Python str: lexicographic by code point, a proper prefix first
RECURSIVE StrLess(_, _)
StrLess(s, t) ==
    IF t = <<>> THEN FALSE
    ELSE IF s = <<>> THEN TRUE
    ELSE IF Head(s) = Head(t) THEN StrLess(Tail(s), Tail(t))
    ELSE Ord[Head(s)] < Ord[Head(t)]

\* sorted(S) of a set of str
RECURSIVE Sorted(_)
Sorted(S) ==
    IF S = {} THEN <<>>
    ELSE LET p == CHOOSE x \in S : TRUE
             lo == {y \in S : StrLess(y, p)}
             hi == {y \in S : StrLess(p, y)}
         IN  Sorted(lo) \o <<p>> \o Sorted(hi)

----------------------------------------------------------------------------
(* leetspeak_variants *)

LEET_MAP == ( "a" :> <<"a", "@", "4">> @@ "e" :> <<"e", "3">>
           @@ "i" :> <<"i", "1", "!">> @@ "o" :> <<"o", "0">>
           @@ "s" :> <<"s", "$", "5">> @@ "t" :> <<"t", "7">> )

\* mutant of Choices: the lookup is case-sensitive, LEET_MAP.get(c, [c])
Choices_CaseSensitive(c) ==
    IF c \in DOMAIN LEET_MAP THEN LEET_MAP[c] ELSE <<c>>

\* mutant of Choices: the substituted letter itself is not among its
\* alternatives
Choices_NoIdentity(c) ==
    IF LowerChar(c) \in DOMAIN LEET_MAP
    THEN Tail(LEET_MAP[LowerChar(c)]) ELSE <<c>>

\* LEET_MAP.get(c.lower(), [c])
Choices(c) ==
    IF LowerChar(c) \in DOMAIN LEET_MAP THEN LEET_MAP[LowerChar(c)] ELSE <<c>>

\* [p + ch for p in variants for ch in choices]
Extend(vs, choices) ==
    [n \in 1..(Len(vs) * Len(choices)) |->
        vs[((n - 1) \div Len(choices)) + 1]
            \o <<choices[((n - 1) % Len(choices)) + 1]>>]

\* the list `variants` after the loop over the characters of word
RECURSIVE LeetList(_)
LeetList(word) ==
    IF word = <<>> THEN << <<>> >>
    ELSE Extend(LeetList(SubSeq(word, 1, Len(word) - 1)),
                Choices(word[Len(word)]))

Range(f) == {f[i] : i \in DOMAIN f}

leetspeak_variants(word) == Range(LeetList(word))

----------------------------------------------------------------------------
(* word_variants *)

\* the separators used when the caller gives none
DefaultSeparators == << <<>>, <<"_">>, <<"-">>, <<".">>, <<"@">> >>

\* the longest combination is min(MaxComboLen, len(variants))
MaxComboLen == 3

Min(a, b) == IF a < b THEN a ELSE b

Max(a, b) == IF a < b THEN b ELSE a

\* mutant of Local: the upper-case form is left out
Local_NoUpper(w, leet) ==
    LET forms == {w, Lower(w), Title(w)}
    IN  IF leet
        THEN forms \cup UNION {leetspeak_variants(v) : v \in forms}
        ELSE forms

\* local: the case forms of one base word, and with leet their leet variants
Local(w, leet) ==
    LET forms == {w, Lower(w), Title(w), Upper(w)}
    IN  IF leet
        THEN forms \cup UNION {leetspeak_variants(v) : v \in forms}
        ELSE forms

\* the set `variants` after the loop over base_words
Pool(base_words, leet) ==
    UNION {Local(base_words[i], leet) : i \in DOMAIN base_words}

\* mutant of permutations: itertools.product(list(S), repeat=n), an element
\* may be taken more than once
permutations_WithRepeats(S, n) == [1..n -> S]

\* itertools.permutations(list(S), n): the sequences of n elements of S taken
\* at pairwise different positions of the list (S is a set, so the elements
\* are pairwise different too)
permutations(S, n) ==
    {p \in [1..n -> S] : \A i, j \in 1..n : i # j => p[i] # p[j]}

\* sep.join(combo)
RECURSIVE Join(_, _)
Join(sep, combo) ==
    IF combo = <<>> THEN <<>>
    ELSE IF Len(combo) = 1 THEN combo[1]
    ELSE combo[1] \o sep \o Join(sep, Tail(combo))

\* mutant of ComboLens: combinations of up to four elements
ComboLens_UpToFour(pool) == 1..Min(MaxComboLen + 1, Cardinality(pool))

\* range(1, min(3, len(variants)) + 1)
ComboLens(pool) == 1..Min(MaxComboLen, Cardinality(pool))

\* the set `results` after the combination loops
Combine(pool, separators) ==
    {Join(separators[k], combo) :
        k \in DOMAIN separators,
        combo \in UNION {permutations(pool, n) : n \in ComboLens(pool)}}

\* one decimal digit as a character
Digits == <<"0", "1", "2", "3", "4", "5", "6", "7", "8", "9">>

\* str(n) of a natural number
RECURSIVE NatToStr(_)
NatToStr(n) ==
    IF n < 10 THEN <<Digits[n + 1]>>
    ELSE NatToStr(n \div 10) \o <<Digits[(n % 10) + 1]>>

\* str(n), as the f-string renders an int
IntToStr(n) == IF n < 0 THEN <<"-">> \o NatToStr(-n) ELSE NatToStr(n)

\* mutant of AddYears: the loop runs over the set while it grows, so an
\* augmented string is augmented again
AddYears_Live(res, years) ==
    LET ys == {IntToStr(years[i]) : i \in DOMAIN years}
        once == res \cup {r \o y : r \in res, y \in ys}
                    \cup {y \o r : r \in res, y \in ys}
    IN  once \cup {r \o y : r \in once, y \in ys}
             \cup {y \o r : r \in once, y \in ys}

\* the year loop: runs over list(results), a copy taken before any addition
AddYears(res, years) ==
    res \cup {r \o IntToStr(years[i]) : r \in res, i \in DOMAIN years}
        \cup {IntToStr(years[i]) \o r : r \in res, i \in DOMAIN years}

\* `if separators is None: separators = [...]`
SeparatorsOf(separators) ==
    IF separators.some THEN separators.val ELSE DefaultSeparators

\* `if append_years and years`
YearsWanted(years, append_years) == append_years /\ Truthy(years)

\* the value word_variants returns, from the candidate set built before the
\* year loop
Augment(res, years, append_years) ==
    IF YearsWanted(years, append_years) THEN AddYears(res, years.val) ELSE res

word_variants(base_words, years, leet, append_years, separators) ==
    Augment(Combine(Pool(base_words, leet), SeparatorsOf(separators)),
            years, append_years)

----------------------------------------------------------------------------
(* generate_wordlist *)

\* the --max-size default of the argument parser
DefaultMaxSize == 5000

\* 'wordlist.txt'
DefaultOut == <<"w", "o", "r", "d", "l", "i", "s", "t", ".", "t", "x", "t">>

MsgNoInputs == "No inputs provided for wordlist generation."

MsgInvalidYears == "Invalid year range; expected format: 1990-2025"

MsgGenerating == "Generating variants..."

MsgGenerated == "Generated"

\* mutant of Base: `if val is not None`, an empty string is kept as a seed
Base_KeepsEmpty(a) ==
    LET keep(o) == IF o.some THEN <<o.val>> ELSE <<>>
    IN  keep(a.name) \o keep(a.pet) \o keep(a.birth) \o keep(a.keyword)

\* the list `base`: str(val) of each of name, pet, birth, keyword that is truthy
Base(a) ==
    LET keep(o) == IF Truthy(o) THEN <<o.val>> ELSE <<>>
    IN  keep(a.name) \o keep(a.pet) \o keep(a.birth) \o keep(a.keyword)

\* text.split(d)
RECURSIVE Split(_, _)
Split(text, d) ==
    IF \A i \in DOMAIN text : text[i] # d THEN <<text>>
    ELSE LET k == CHOOSE i \in DOMAIN text :
                      text[i] = d /\ \A j \in 1..(i - 1) : text[j] # d
         IN  <<SubSeq(text, 1, k - 1)>> \o Split(SubSeq(text, k + 1, Len(text)), d)

DigitValue == ( "0" :> 0 @@ "1" :> 1 @@ "2" :> 2 @@ "3" :> 3 @@ "4" :> 4
             @@ "5" :> 5 @@ "6" :> 6 @@ "7" :> 7 @@ "8" :> 8 @@ "9" :> 9 )

\* int(text) succeeds: over the characters explored (digits, "-", letters)
\* that is a non-empty run of digits
IsInt(text) == text # <<>> /\ \A i \in DOMAIN text : text[i] \in DOMAIN DigitValue

\* int(text) of a run of digits
RECURSIVE ToInt(_)
ToInt(text) ==
    IF text = <<>> THEN 0
    ELSE 10 * ToInt(SubSeq(text, 1, Len(text) - 1)) + DigitValue[text[Len(text)]]

\* list(range(start, end + 1))
RangeList(start, end) == [i \in 1..(end + 1 - start) |-> start + i - 1]

\* the try block: `start, end = map(int, text.split('-'))` raises unless there
\* are exactly two parts and both are integers
ParseYears(text) ==
    LET parts == Split(text, "-")
    IN  IF Len(parts) = 2 /\ IsInt(parts[1]) /\ IsInt(parts[2])
        THEN [raised |-> FALSE,
              years |-> RangeList(ToInt(parts[1]), ToInt(parts[2]))]
        ELSE [raised |-> TRUE, years |-> <<>>]

\* the years list and what is printed on the way, for `--years`
YearsOf(a) ==
    IF Truthy(a.years)
    THEN LET r == ParseYears(a.years.val)
         IN  [years |-> r.years,
              printed |-> IF r.raised THEN <<MsgInvalidYears>> ELSE <<>>]
    ELSE [years |-> <<>>, printed |-> <<>>]

\* `args.max_size and len(wl) > args.max_size`
Capping(w, max_size) == max_size # 0 /\ Cardinality(w) > max_size

\* len(xs[:m]) for a list of n elements
SliceLen(n, m) == IF m >= 0 THEN Min(n, m) ELSE Max(0, n + m)

\* the subsets of S with q elements
RECURSIVE SubsetsOfSize(_, _)
SubsetsOfSize(S, q) ==
    IF q = 0 THEN {{}}
    ELSE UNION {{T \cup {x} : x \in S \ T} : T \in SubsetsOfSize(S, q - 1)}

\* set(list(w)[:max_size]): list(w) lists a set of str in an order that the
\* language does not fix (it changes with the hash seed of the process), so
\* every subset of the slice's length is a possible outcome
Truncations(w, max_size) ==
    LET n == Cardinality(w)
        q == SliceLen(n, max_size)
    IN  IF 2 * q <= n THEN SubsetsOfSize(w, q)
        ELSE {w \ T : T \in SubsetsOfSize(w, n - q)}

\* the values `wl` may have after the size check
CapOutcomes(w, max_size) ==
    IF Capping(w, max_size) THEN Truncations(w, max_size) ELSE {w}

\* `args.out or 'wordlist.txt'`
OutPath(a) == IF Truthy(a.out) THEN a.out.val ELSE DefaultOut

NoFile == [opened |-> FALSE, path |-> <<>>, lines |-> <<>>]

generate_wordlist(a) ==
    /\ pc = "ready"
    /\ pc' = "done"
    /\ args' = a
    /\ IF Base(a) = <<>>
       THEN /\ stdout' = <<MsgNoInputs>>
            /\ UNCHANGED <<variants, results, ret, wl, capped, file>>
       ELSE LET y == YearsOf(a)
                w == word_variants(Base(a),
                                   IF a.append_years THEN Some(y.years) ELSE None,
                                   a.leet, a.append_years, None)
            IN  \E kept \in CapOutcomes(w, a.max_size) :
                    /\ wl' = w
                    /\ capped' = kept
                    /\ file' = [opened |-> TRUE, path |-> OutPath(a),
                                lines |-> Sorted(kept)]
                    /\ stdout' = y.printed \o <<MsgGenerating, MsgGenerated>>
                    /\ UNCHANGED <<variants, results, ret>>

----------------------------------------------------------------------------
(* The calls explored. *)

\* all str over chars of length at most n
StrsUpTo(chars, n) == UNION {[1..k -> chars] : k \in 0..n}

\* words given to leetspeak_variants: substituted letters in both cases, a
\* letter and a digit outside the map, and two characters that are themselves
\* substitutes
LeetChars == {"a", "A", "e", "S", "t", "x", "4", "@"}

LeetWords == StrsUpTo(LeetChars, MaxWordLen)

call_leetspeak_variants(word) ==
    /\ pc = "ready"
    /\ pc' = "done"
    /\ args' = [word |-> word]
    /\ ret' = leetspeak_variants(word)
    /\ UNCHANGED <<variants, results, wl, capped, file, stdout>>

\* seeds of a direct call: a substituted letter, a digit
Seeds == {<<"a">>, <<"1">>}

\* base_words of a direct call
BaseLists == UNION {[1..k -> Seeds] : k \in 0..MaxBase}

\* years of a direct call: None, or the years 1..hi (empty when hi = 0)
YearLists == {None} \cup {Some(RangeList(1, hi)) : hi \in 0..MaxYear}

\* separators of a direct call: None, or a list over "", "_", "@"
SeparatorLists ==
    {None} \cup {Some(l) : l \in UNION {[1..k -> {<<>>, <<"_">>, <<"@">>}] :
                                            k \in 0..MaxSeps}}

call_word_variants(base_words, years, leet, append_years, separators) ==
    /\ pc = "ready"
    /\ pc' = "done"
    /\ args' = [base_words |-> base_words, years |-> years, leet |-> leet,
                append_years |-> append_years, separators |-> separators]
    /\ variants' = Pool(base_words, leet)
    /\ results' = Combine(Pool(base_words, leet), SeparatorsOf(separators))
    /\ ret' = word_variants(base_words, years, leet, append_years, separators)
    /\ UNCHANGED <<wl, capped, file, stdout>>

\* the parser's defaults for `generate`
NoArgs ==
    [name |-> None, pet |-> None, birth |-> None, keyword |-> None,
     years |-> None, leet |-> FALSE, append_years |-> FALSE,
     max_size |-> DefaultMaxSize, out |-> None]

\* a seed option: absent, empty, a substituted letter, an upper-case letter,
\* a digit
OptSeeds == {None, Some(<<>>), Some(<<"a">>), Some(<<"B">>), Some(<<"1">>)}

\* command lines that vary the seeds
SeedRuns ==
    {[NoArgs EXCEPT !.name = n, !.pet = p, !.birth = b, !.keyword = k,
                    !.years = y, !.leet = l, !.append_years = ay, !.out = o] :
        n \in OptSeeds, p \in {None, Some(<<"B">>)}, b \in {None, Some(<<"1">>)},
        k \in {None, Some(<<>>)}, y \in {None, Some(<<"1", "-", "1">>)},
        l \in BOOLEAN, ay \in BOOLEAN, o \in {None, Some(<<"o">>)}}

\* --years texts
YearTexts == StrsUpTo({"1", "2", "-", "x"}, MaxYearsLen)

\* command lines that vary --years
YearRuns ==
    {[NoArgs EXCEPT !.name = n, !.years = y, !.append_years = ay] :
        n \in {None, Some(<<"a">>)}, y \in {Some(t) : t \in YearTexts},
        ay \in BOOLEAN}

\* --max-size values: negative, zero, small, the default
MaxSizes == {-1, 0, DefaultMaxSize} \cup 1..MaxCap

\* command lines that vary --max-size
CapRuns ==
    {[NoArgs EXCEPT !.name = Some(<<"a">>), !.years = y, !.append_years = ay,
                    !.max_size = m] :
        y \in {None, Some(<<"1", "-", "1">>)}, ay \in BOOLEAN, m \in MaxSizes}

\* generate --name Max --years 2020-2021 --append-years
ExampleRun ==
    [NoArgs EXCEPT !.name = Some(<<"M", "a", "x">>),
                   !.years = Some(<<"2", "0", "2", "0", "-", "2", "0", "2", "1">>),
                   !.append_years = TRUE]

GenerateRuns == SeedRuns \cup YearRuns \cup CapRuns \cup {ExampleRun}

Init ==
    /\ pc = "ready"
    /\ args = << >>
    /\ variants = {}
    /\ results = {}
    /\ ret = {}
    /\ wl = {}
    /\ capped = {}
    /\ file = NoFile
    /\ stdout = << >>

\* main: the generate subcommand
Next == \E a \in GenerateRuns : generate_wordlist(a)

Spec == Init /\ [][Next]_vars

NextLeet == \E word \in LeetWords : call_leetspeak_variants(word)

SpecLeet == Init /\ [][NextLeet]_vars

NextVariants ==
    \E base_words \in BaseLists, years \in YearLists, leet \in BOOLEAN,
       append_years \in BOOLEAN, separators \in SeparatorLists :
        call_word_variants(base_words, years, leet, append_years, separators)

SpecVariants == Init /\ [][NextVariants]_vars

----------------------------------------------------------------------------
(* Claims about generate_wordlist, checked under Spec. *)

StartsWith(w, pre) == Len(pre) <= Len(w) /\ SubSeq(w, 1, Len(pre)) = pre

EndsWith(w, suf) ==
    Len(suf) <= Len(w) /\ SubSeq(w, Len(w) - Len(suf) + 1, Len(w)) = suf

\* a seed was supplied as a non-empty string
Supplied(o) == o.some /\ Len(o.val) > 0

AnySeed ==
    Supplied(args.name) \/ Supplied(args.pet) \/ Supplied(args.birth)
        \/ Supplied(args.keyword)

\* C1: whenever the candidate set has more than max-size elements, the words
\* written are exactly the max-size lexicographically smallest candidates
\* (stated for max-size >= 1)
C1_CapKeepsSmallest ==
    (pc = "done" /\ file.opened /\ args.max_size >= 1
        /\ Cardinality(wl) > args.max_size)
    => file.lines = SubSeq(Sorted(wl), 1, args.max_size)

\* C2: the number of words written is min(inputSize, maxSize), for every
\* max-size >= 0, 0 included
C2_WrittenIsMin ==
    (pc = "done" /\ file.opened /\ args.max_size >= 0)
    => Len(file.lines) = Min(Cardinality(wl), args.max_size)

\* text is start-end with two integers and start <= end
WellFormedRange(text) ==
    \E k \in DOMAIN text :
        /\ text[k] = "-"
        /\ IsInt(SubSeq(text, 1, k - 1))
        /\ IsInt(SubSeq(text, k + 1, Len(text)))
        /\ ToInt(SubSeq(text, 1, k - 1)) <= ToInt(SubSeq(text, k + 1, Len(text)))

\* C4: when seeds are given and the (non-empty) --years text is not a
\* well-formed range with start <= end, a warning is printed, no word carries a
\* year, and the wordlist is still written
C4_BadYearsWarned ==
    (pc = "done" /\ AnySeed /\ Truthy(args.years)
        /\ ~WellFormedRange(args.years.val))
    => /\ \E i \in DOMAIN stdout : stdout[i] = MsgInvalidYears
       /\ wl = Combine(Pool(Base(args), args.leet), DefaultSeparators)
       /\ file.opened
       /\ stdout[Len(stdout)] = MsgGenerated

\* C7: with no seed supplied as a non-empty string, generate prints the notice
\* and returns: no file is opened, no variant is generated, nothing else is
\* printed
C7_NoSeedsNoWrite ==
    (pc = "done" /\ ~AnySeed)
    => /\ stdout = <<MsgNoInputs>>
       /\ ~file.opened
       /\ file.lines = << >>
       /\ wl = {}
       /\ capped = {}

\* C7 witness: a run whose only seed option is an empty string, next to a
\* --years option, has returned with the notice
C7_Witness ==
    /\ pc = "done"
    /\ args.name.some /\ args.name.val = << >>
    /\ ~Supplied(args.pet) /\ ~Supplied(args.birth) /\ ~Supplied(args.keyword)
    /\ args.years.some
    /\ stdout = <<MsgNoInputs>>

\* C8: generate --name Max --years 2020-2021 --append-years (no leet, default
\* separators, default max-size) writes "Max2020", "2020Max", "max" and "MAX"
C8_ExampleWords ==
    (pc = "done" /\ args = ExampleRun)
    => /\ file.opened
       /\ \A w \in {<<"M", "a", "x", "2", "0", "2", "0">>,
                    <<"2", "0", "2", "0", "M", "a", "x">>,
                    <<"m", "a", "x">>, <<"M", "A", "X">>} :
              \E i \in DOMAIN file.lines : file.lines[i] = w

\* C8 witness: the example run has written its file, uncapped
C8_Witness ==
    /\ pc = "done"
    /\ args = ExampleRun
    /\ file.opened
    /\ Len(file.lines) = Cardinality(wl)
    /\ Len(file.lines) > 4

----------------------------------------------------------------------------
(* Claims about word_variants, checked under SpecVariants. *)

\* the number of (permutation, separator) pairs for a pool of k elements and
\* s separators
PairCount(k, s) == s * (k + k * (k - 1) + k * (k - 1) * (k - 2))

\* the same count with the one-element permutations counted once
StringBound(k, s) ==
    IF s = 0 THEN 0 ELSE k + s * (k * (k - 1) + k * (k - 1) * (k - 2))

\* C3 as stated: for a pool of k >= 3 elements and s separators the candidate
\* set has exactly s * (k + k(k-1) + k(k-1)(k-2)) elements
C3_ExactCount ==
    (pc = "done" /\ Cardinality(variants) >= 3)
    => Cardinality(results)
         = PairCount(Cardinality(variants), Len(SeparatorsOf(args.separators)))

\* C3 amended: for a pool of k >= 3 elements and s separators the candidate
\* set has at most k + s * (k(k-1) + k(k-1)(k-2)) elements, and none when s = 0
C3_AtMostCount ==
    (pc = "done" /\ Cardinality(variants) >= 3)
    => Cardinality(results)
         <= StringBound(Cardinality(variants),
                        Len(SeparatorsOf(args.separators)))

\* C3 witness: a pool of at least 3 elements combined with 2 separators
\* reaches the amended bound, which is below the stated count
C3_Witness ==
    /\ pc = "done"
    /\ Cardinality(variants) >= 3
    /\ Len(SeparatorsOf(args.separators)) = 2
    /\ Cardinality(results) = StringBound(Cardinality(variants), 2)
    /\ Cardinality(results) < PairCount(Cardinality(variants), 2)

\* the call asked for years and gave a non-empty list
Augmenting == args.append_years /\ args.years.some /\ Len(args.years.val) > 0

\* C5: with augmentation on and a non-empty year list, the result is the
\* candidate set C united with {c+y, y+c : c in C, y in years}; its size is at
\* most |C| * (1 + 2 * |years|); every element outside C starts or ends with
\* the decimal form of a year of the list
C5_AugmentedOnce ==
    (pc = "done" /\ Augmenting)
    => LET ys == {IntToStr(args.years.val[i]) : i \in DOMAIN args.years.val}
       IN  /\ ret = results \cup {c \o y : c \in results, y \in ys}
                            \cup {y \o c : c \in results, y \in ys}
           /\ Cardinality(ret)
                <= Cardinality(results) * (1 + 2 * Len(args.years.val))
           /\ \A w \in ret \ results :
                  \E y \in ys : StartsWith(w, y) \/ EndsWith(w, y)

\* C5 witness: a call with two years and a non-empty candidate set has
\* returned more than the candidates
C5_Witness ==
    /\ pc = "done"
    /\ Augmenting
    /\ Len(args.years.val) = 2
    /\ results # {}
    /\ Cardinality(ret) > Cardinality(results)

\* C9: the candidate set is exactly the set of sep.join(p), for every
\* separator of the list and every sequence p of 1, 2 or 3 pairwise different
\* pool elements; an empty pool gives an empty candidate set
C9_CandidatesArePermutations ==
    pc = "done"
    => LET seps == {SeparatorsOf(args.separators)[k] :
                        k \in DOMAIN SeparatorsOf(args.separators)}
           one == {t \in variants \X seps : TRUE}
           two == {t \in variants \X variants \X seps : t[1] # t[2]}
           three == {t \in variants \X variants \X variants \X seps :
                        t[1] # t[2] /\ t[1] # t[3] /\ t[2] # t[3]}
       IN  /\ results =
                {t[1] : t \in one}
                \cup {t[1] \o t[3] \o t[2] : t \in two}
                \cup {t[1] \o t[4] \o t[2] \o t[4] \o t[3] : t \in three}
           /\ (variants = {} => results = {})

\* C9 witness: a pool of at least 4 elements has been combined with two
\* different separators
C9_Witness ==
    /\ pc = "done"
    /\ Cardinality(variants) >= 4
    /\ args.separators.some
    /\ Len(args.separators.val) = 2
    /\ args.separators.val[1] # args.separators.val[2]
    /\ Cardinality(results) > Cardinality(variants)

----------------------------------------------------------------------------
(* Claims about leetspeak_variants, checked under SpecLeet. *)

\* the size of a character's alternative set, as the substitution table of
\* the specification gives it
AltCount(c) ==
    IF c \in {"a", "A", "i", "I", "s", "S"} THEN 3
    ELSE IF c \in {"e", "E", "o", "O", "t", "T"} THEN 2
    ELSE 1

RECURSIVE AltProduct(_)
AltProduct(word) ==
    IF word = << >> THEN 1 ELSE AltCount(Head(word)) * AltProduct(Tail(word))

\* C6: leetspeak_variants(word) has as many elements as the product of the
\* sizes of the alternative sets of its characters; leetspeak_variants("") is
\* {""}
C6_SizeIsProduct ==
    pc = "done"
    => /\ Cardinality(ret) = AltProduct(args.word)
       /\ (args.word = << >> => ret = {<< >>})

\* C6 witness: a word with an upper-case substituted letter, a lower-case
\* one and a character outside the map has 3 * 2 * 1 variants
C6_Witness ==
    /\ pc = "done"
    /\ args.word = <<"A", "e", "x">>
    /\ Cardinality(ret) = 6

\* the word with its upper-case A, E, I, O, S, T in lower case
Unsubstituted(word) ==
    [i \in DOMAIN word |->
        IF word[i] \in {"A", "E", "I", "O", "S", "T"}
        THEN LowerChar(word[i]) ELSE word[i]]

\* C10 as stated: the word itself is a member of leetspeak_variants(word)
C10_WordIsVariant == pc = "done" => args.word \in ret

\* C10 amended: the word with its upper-case A, E, I, O, S, T lower-cased is a
\* member of leetspeak_variants(word); the word itself is a member exactly
\* when it has none of these upper-case letters
C10_LoweredWordIsVariant ==
    pc = "done"
    => /\ Unsubstituted(args.word) \in ret
       /\ (args.word \in ret <=> Unsubstituted(args.word) = args.word)

\* C10 witness: a word with an upper-case A is not among its own variants,
\* its lower-cased form is
C10_Witness ==
    /\ pc = "done"
    /\ args.word = <<"x", "A", "t">>
    /\ args.word \notin ret
    /\ <<"x", "a", "t">> \in ret

====
